---- MODULE Spec2Model ----
(***************************************************************************)
(* kvz_client.py: the Python client of the kvz key/value store.            *)
(*                                                                         *)
(* A byte string (Python bytes) is a sequence over 0..255, a Python str a  *)
(* sequence of code points, a multipart message a sequence of frames       *)
(* (byte strings).  A Python int is unbounded: it is kept as a sign and a  *)
(* big-endian base-256 magnitude without leading zeros, so that values at  *)
(* and above 2^64 exist in the model.                                      *)
(***************************************************************************)
EXTENDS Integers, Sequences, FiniteSets, TLC

(***************************************************************************)
(* Bounds of the model.                                                    *)
(***************************************************************************)
\* calls recorded in one history (Spec)
MaxCalls == 3
\* frames in a reply the peer may send (SpecWire)
MaxFrames == 4

\* calls the two concurrent callers make between them
ConcCalls == 3

(***************************************************************************)
(* Python int                                                              *)
(***************************************************************************)
RECURSIVE StripZeros(_)
StripZeros(b) ==
    IF b = <<>> THEN <<>>
    ELSE IF Head(b) = 0 THEN StripZeros(Tail(b))
    ELSE b

RECURSIVE Digits(_)
\* the base-256 big-endian digits of a natural number
Digits(n) ==
    IF n = 0 THEN <<>> ELSE Append(Digits(n \div 256), n % 256)

\* the Python int of a small integer literal
PyInt(n) ==
    IF n < 0 THEN [neg |-> TRUE, mag |-> Digits(0 - n)]
    ELSE [neg |-> FALSE, mag |-> Digits(n)]

RECURSIVE LexLess(_, _)
\* lexicographic order on two byte strings of the same length
LexLess(a, b) ==
    IF a = <<>> THEN FALSE
    ELSE IF Head(a) # Head(b) THEN Head(a) < Head(b)
    ELSE LexLess(Tail(a), Tail(b))

MagLess(a, b) ==
    \/ Len(a) < Len(b)
    \/ Len(a) = Len(b) /\ LexLess(a, b)

\* a < b on Python ints
IntLess(a, b) ==
    IF a.neg /\ ~b.neg THEN TRUE
    ELSE IF ~a.neg /\ b.neg THEN FALSE
    ELSE IF a.neg THEN MagLess(b.mag, a.mag)
    ELSE MagLess(a.mag, b.mag)

(***************************************************************************)
(* struct.pack(">Q", ts) and struct.unpack(">Q", b)                        *)
(***************************************************************************)
RECURSIVE Zeros(_)
Zeros(n) == IF n <= 0 THEN <<>> ELSE <<0>> \o Zeros(n - 1)

\* the width in bytes of format ">Q"
QSize == 8

RECURSIVE Reverse(_)
Reverse(b) == IF b = <<>> THEN <<>> ELSE Append(Reverse(Tail(b)), Head(b))

\* the bug of format "<Q": the bytes written least significant first
struct_pack_Q_little_endian(ts) ==
    IF ts.neg \/ Len(ts.mag) > QSize
    THEN [ok |-> FALSE, bytes |-> <<>>]
    ELSE [ok |-> TRUE, bytes |-> Reverse(Zeros(QSize - Len(ts.mag)) \o ts.mag)]

\* the bug of masking to 64 bits instead of raising: the low eight bytes of
\* the magnitude go out, whatever the sign
struct_pack_Q_wraps(ts) ==
    [ok |-> TRUE,
     bytes |-> IF Len(ts.mag) > QSize
               THEN SubSeq(ts.mag, Len(ts.mag) - QSize + 1, Len(ts.mag))
               ELSE Zeros(QSize - Len(ts.mag)) \o ts.mag]

\* struct.pack(">Q", ts): struct.error unless 0 <= ts <= 2^64 - 1
struct_pack_Q(ts) ==
    IF ts.neg \/ Len(ts.mag) > QSize
    THEN [ok |-> FALSE, bytes |-> <<>>]
    ELSE [ok |-> TRUE, bytes |-> Zeros(QSize - Len(ts.mag)) \o ts.mag]

\* the bug of format "<Q": the bytes read least significant first
struct_unpack_Q_little_endian(b) ==
    IF Len(b) # QSize
    THEN [ok |-> FALSE, val |-> PyInt(0)]
    ELSE [ok |-> TRUE, val |-> [neg |-> FALSE, mag |-> StripZeros(Reverse(b))]]

\* struct.unpack(">Q", b)[0]: struct.error unless len(b) = 8
struct_unpack_Q(b) ==
    IF Len(b) # QSize
    THEN [ok |-> FALSE, val |-> PyInt(0)]
    ELSE [ok |-> TRUE, val |-> [neg |-> FALSE, mag |-> StripZeros(b)]]

(***************************************************************************)
(* str.encode("utf-8") and bytes.decode("utf-8", errors="ignore").         *)
(* One- and two-byte forms (code points below 0x800); the lead bytes of    *)
(* the three- and four-byte forms, 0xE0..0xF4, are not drawn by the model. *)
(***************************************************************************)
RECURSIVE utf8_encode(_)
utf8_encode(s) ==
    IF s = <<>> THEN <<>>
    ELSE LET c == Head(s)
         IN (IF c < 128 THEN <<c>>
             ELSE <<192 + (c \div 64), 128 + (c % 64)>>) \o utf8_encode(Tail(s))

IsCont(x) == 128 <= x /\ x <= 191

IsLead2(x) == 194 <= x /\ x <= 223

RECURSIVE utf8_decode_replace(_)
\* the bug of errors="replace": U+FFFD stands for each byte that is dropped
utf8_decode_replace(b) ==
    IF b = <<>> THEN <<>>
    ELSE LET c == Head(b)
         IN IF c < 128 THEN <<c>> \o utf8_decode_replace(Tail(b))
            ELSE IF IsLead2(c) /\ Len(b) >= 2 /\ IsCont(b[2])
            THEN <<(c - 192) * 64 + (b[2] - 128)>> \o utf8_decode_replace(Tail(Tail(b)))
            ELSE <<65533>> \o utf8_decode_replace(Tail(b))

RECURSIVE utf8_decode_ignore(_)
\* an invalid start byte, or a lead byte without its continuation byte, is
\* dropped and decoding resumes at the next byte
utf8_decode_ignore(b) ==
    IF b = <<>> THEN <<>>
    ELSE LET c == Head(b)
         IN IF c < 128 THEN <<c>> \o utf8_decode_ignore(Tail(b))
            ELSE IF IsLead2(c) /\ Len(b) >= 2 /\ IsCont(b[2])
            THEN <<(c - 192) * 64 + (b[2] - 128)>> \o utf8_decode_ignore(Tail(Tail(b)))
            ELSE utf8_decode_ignore(Tail(b))

(***************************************************************************)
(* Literals of the source, as code points / bytes                          *)
(***************************************************************************)
\* "OK"
S_OK == <<79, 75>>
\* "STALE"
S_STALE == <<83, 84, 65, 76, 69>>
\* "MISS"
S_MISS == <<77, 73, 83, 83>>
\* "ERR"
S_ERR == <<69, 82, 82>>
\* b"PUT"
B_PUT == <<80, 85, 84>>
\* b"GET"
B_GET == <<71, 69, 84>>

(***************************************************************************)
(* Inputs of the model                                                     *)
(***************************************************************************)
\* keys (str): "k", and "é", whose code point takes two bytes
Keys == {<<107>>, <<233>>}

\* timestamps (int): 0, 500, 1000 and the largest unsigned 64-bit value
MaxU64 == [neg |-> FALSE, mag |-> <<255, 255, 255, 255, 255, 255, 255, 255>>]

Timestamps == {PyInt(0), PyInt(500), PyInt(1000), MaxU64}

\* ints that are no unsigned 64-bit value: -1 and 2^64
BadTimestamps == {PyInt(-1), [neg |-> FALSE, mag |-> <<1, 0, 0, 0, 0, 0, 0, 0, 0>>]}

\* payloads (bytes): empty, and one holding a zero byte and a byte that is
\* not valid UTF-8
Payloads == {<<>>, <<0, 255>>}

\* first frames a peer may send: the four tags, an unknown tag, OK with an
\* invalid byte after it, MISS with an invalid byte before it, and the
\* empty frame
TagFrames == {S_OK, S_STALE, S_MISS, S_ERR, <<78, 79>>, <<79, 75, 255>>,
              <<255, 77, 73, 83, 83>>, <<>>}

\* further frames a peer may send: empty, one invalid byte, "hi", and the
\* eight bytes of 1000 and of 2^64 - 1
DataFrames == {<<>>, <<255>>, <<104, 105>>, struct_pack_Q(PyInt(1000)).bytes,
               struct_pack_Q(MaxU64).bytes}

RECURSIVE FrameSeqs(_)
\* the sequences of at most n data frames
FrameSeqs(n) ==
    IF n <= 0 THEN {<<>>}
    ELSE LET shorter == FrameSeqs(n - 1)
         IN shorter \cup {Append(q, f) : q \in shorter, f \in DataFrames}

\* the replies a peer may send: no frame at all, or a first frame and up to
\* MaxFrames - 1 further frames
Replies == {<<>>} \cup {<<t>> \o q : t \in TagFrames, q \in FrameSeqs(MaxFrames - 1)}

(***************************************************************************)
(* Outcome of a call: a returned value or a raised exception               *)
(***************************************************************************)
Blank == [kind |-> "", s |-> <<>>, ts |-> PyInt(0), data |-> <<>>,
          exc |-> "", fmt |-> "", arg |-> <<>>]

\* return code  (a str)
ReturnStr(c) == [Blank EXCEPT !.kind = "str", !.s = c]

\* return None
ReturnNone == [Blank EXCEPT !.kind = "none"]

\* return ts, data
ReturnTuple(t, d) == [Blank EXCEPT !.kind = "tuple", !.ts = t, !.data = d]

\* raise exc(f"{fmt}{s}") ; arg is the reply when the message formats it
Raise(e, f, m, r) == [Blank EXCEPT !.kind = "raise", !.exc = e, !.fmt = f,
                                   !.s = m, !.arg = r]

(***************************************************************************)
(* State                                                                   *)
(***************************************************************************)
VARIABLES
    pc,        \* where the caller is: "idle", or blocked in recv_multipart
    cur,       \* the call in progress or last made
    sock,      \* the REQ socket: "Idle" or "RequestSent"
    toServer,  \* requests sent and not yet handled by the store
    toClient,  \* replies sent and not yet received
    rep,       \* put/get's local rep: the reply this call received
    ret,       \* the outcome of the call, once it has ended
    store,     \* the store's records: key bytes -> [ts, data]
    log,       \* the calls that ended, in order, each with its outcome
    served,    \* the requests the store handled, in order, each with its reply
    parked,    \* the second caller, while the first runs: its pc, cur, rep,
               \* ret and, when it has a session of its own, that session
    mode       \* how two callers use sessions: "single" (one caller only),
               \* "own" (one session each), "shared" (one session, no
               \* exclusion), "locked" (one session, one call at a time)

vars == <<pc, cur, sock, toServer, toClient, rep, ret, store, log,
          served, parked, mode>>

\* what the specifications of one caller leave alone
others == <<served, parked, mode>>

NoCall == [op |-> "", key |-> <<>>, ts |-> PyInt(0), data |-> <<>>]

\* a caller that has made no call, and a session just connected
Fresh == [pc |-> "idle", cur |-> NoCall, rep |-> <<>>, ret |-> Blank,
          sock |-> "Idle", toServer |-> <<>>, toClient |-> <<>>]

Init ==
    /\ pc = "idle"
    /\ cur = NoCall
    /\ sock = "Idle"
    /\ toServer = <<>>
    /\ toClient = <<>>
    /\ rep = <<>>
    /\ ret = Blank
    /\ store = <<>>
    /\ log = <<>>
    /\ served = <<>>
    /\ parked = Fresh
    /\ mode = "single"

(***************************************************************************)
(* KVZClient.put                                                           *)
(***************************************************************************)
\* the bug of answering "OK" for either accepted tag
put_decode_stale_as_ok(r) ==
    IF r = <<>> THEN Raise("RuntimeError", "empty reply", <<>>, <<>>)
    ELSE LET code == utf8_decode_ignore(r[1])
         IN IF code \in {S_OK, S_STALE} THEN ReturnStr(S_OK)
            ELSE IF code = S_ERR
            THEN LET msg == IF Len(r) > 1 THEN utf8_decode_ignore(r[2]) ELSE <<>>
                 IN Raise("RuntimeError", "PUT ERR: ", msg, <<>>)
            ELSE Raise("RuntimeError", "Unexpected reply: ", <<>>, r)

\* the bug of returning only on "OK": STALE falls through to the last raise
put_decode_stale_raises(r) ==
    IF r = <<>> THEN Raise("RuntimeError", "empty reply", <<>>, <<>>)
    ELSE LET code == utf8_decode_ignore(r[1])
         IN IF code = S_OK THEN ReturnStr(code)
            ELSE IF code = S_ERR
            THEN LET msg == IF Len(r) > 1 THEN utf8_decode_ignore(r[2]) ELSE <<>>
                 IN Raise("RuntimeError", "PUT ERR: ", msg, <<>>)
            ELSE Raise("RuntimeError", "Unexpected reply: ", <<>>, r)

\* the bug of reading rep[1] without the length guard: IndexError on a
\* one-frame ERR
put_decode_err_unguarded(r) ==
    IF r = <<>> THEN Raise("RuntimeError", "empty reply", <<>>, <<>>)
    ELSE LET code == utf8_decode_ignore(r[1])
         IN IF code \in {S_OK, S_STALE} THEN ReturnStr(code)
            ELSE IF code = S_ERR
            THEN IF Len(r) > 1
                 THEN Raise("RuntimeError", "PUT ERR: ", utf8_decode_ignore(r[2]), <<>>)
                 ELSE Raise("IndexError", "", <<>>, <<>>)
            ELSE Raise("RuntimeError", "Unexpected reply: ", <<>>, r)

\* the bug of returning the code for MISS too
put_decode_miss_as_value(r) ==
    IF r = <<>> THEN Raise("RuntimeError", "empty reply", <<>>, <<>>)
    ELSE LET code == utf8_decode_ignore(r[1])
         IN IF code \in {S_OK, S_STALE, S_MISS} THEN ReturnStr(code)
            ELSE IF code = S_ERR
            THEN LET msg == IF Len(r) > 1 THEN utf8_decode_ignore(r[2]) ELSE <<>>
                 IN Raise("RuntimeError", "PUT ERR: ", msg, <<>>)
            ELSE Raise("RuntimeError", "Unexpected reply: ", <<>>, r)

\* lines 23-31: what put does with the reply it received
put_decode(r) ==
    IF r = <<>> THEN Raise("RuntimeError", "empty reply", <<>>, <<>>)
    ELSE LET code == utf8_decode_ignore(r[1])
         IN IF code \in {S_OK, S_STALE} THEN ReturnStr(code)
            ELSE IF code = S_ERR
            THEN LET msg == IF Len(r) > 1 THEN utf8_decode_ignore(r[2]) ELSE <<>>
                 IN Raise("RuntimeError", "PUT ERR: ", msg, <<>>)
            ELSE Raise("RuntimeError", "Unexpected reply: ", <<>>, r)

\* lines 20-21: pack the timestamp, send the four frames; a timestamp that
\* does not pack raises before anything is sent
put_call(key, ts, data) ==
    /\ pc = "idle"
    /\ cur' = [op |-> "put", key |-> key, ts |-> ts, data |-> data]
    /\ LET ts_bytes == struct_pack_Q(ts)
       IN IF ~ts_bytes.ok
          THEN /\ ret' = Raise("struct.error", "", <<>>, <<>>)
               /\ UNCHANGED <<pc, sock, toServer>>
          ELSE IF sock # "Idle"
          THEN /\ ret' = Raise("zmq.ZMQError", "", <<>>, <<>>)
               /\ UNCHANGED <<pc, sock, toServer>>
          ELSE /\ toServer' = Append(toServer,
                                <<B_PUT, utf8_encode(key), ts_bytes.bytes, data>>)
               /\ sock' = "RequestSent"
               /\ pc' = "put_recv"
               /\ ret' = Blank
    /\ rep' = <<>>
    /\ UNCHANGED <<toClient, store>>

\* the bug of a retry: a reply that is an error sends the request again
put_return_retry ==
    /\ pc = "put_recv"
    /\ toClient # <<>>
    /\ rep' = Head(toClient)
    /\ toClient' = Tail(toClient)
    /\ IF put_decode(rep').kind = "raise"
       THEN /\ toServer' = Append(toServer, <<B_PUT, utf8_encode(cur.key),
                                              struct_pack_Q(cur.ts).bytes, cur.data>>)
            /\ sock' = "RequestSent"
            /\ ret' = Blank
            /\ pc' = "put_recv"
       ELSE /\ sock' = "Idle"
            /\ ret' = put_decode(rep')
            /\ pc' = "idle"
            /\ UNCHANGED toServer
    /\ UNCHANGED <<cur, store>>

\* the bug of reading the reply without taking it off the socket
put_return_peek ==
    /\ pc = "put_recv"
    /\ toClient # <<>>
    /\ rep' = Head(toClient)
    /\ sock' = "Idle"
    /\ ret' = put_decode(rep')
    /\ pc' = "idle"
    /\ UNCHANGED <<cur, toServer, toClient, store>>

\* lines 22-31: recv_multipart returns the reply; decode it
put_return ==
    /\ pc = "put_recv"
    /\ toClient # <<>>
    /\ rep' = Head(toClient)
    /\ toClient' = Tail(toClient)
    /\ sock' = "Idle"
    /\ ret' = put_decode(rep')
    /\ pc' = "idle"
    /\ UNCHANGED <<cur, toServer, store>>

(***************************************************************************)
(* KVZClient.get                                                           *)
(***************************************************************************)
\* the frame count of a GET reply tagged OK
OkFrames == 3

\* the bug of returning rep[1], the timestamp frame, as the payload
get_decode_payload_index(r) ==
    IF r = <<>> THEN Raise("RuntimeError", "empty reply", <<>>, <<>>)
    ELSE LET code == utf8_decode_ignore(r[1])
         IN IF code = S_MISS THEN ReturnNone
            ELSE IF code = S_OK
            THEN IF Len(r) # OkFrames
                 THEN Raise("RuntimeError", "malformed OK reply", <<>>, <<>>)
                 ELSE LET ts == struct_unpack_Q(r[2])
                      IN IF ~ts.ok THEN Raise("struct.error", "", <<>>, <<>>)
                         ELSE ReturnTuple(ts.val, r[2])
            ELSE IF code = S_ERR
            THEN LET msg == IF Len(r) > 1 THEN utf8_decode_ignore(r[2]) ELSE <<>>
                 IN Raise("RuntimeError", "GET ERR: ", msg, <<>>)
            ELSE Raise("RuntimeError", "Unexpected reply: ", <<>>, r)

\* the bug of no MISS branch: MISS falls through to the last raise
get_decode_miss_unexpected(r) ==
    IF r = <<>> THEN Raise("RuntimeError", "empty reply", <<>>, <<>>)
    ELSE LET code == utf8_decode_ignore(r[1])
         IN IF code = S_OK
            THEN IF Len(r) # OkFrames
                 THEN Raise("RuntimeError", "malformed OK reply", <<>>, <<>>)
                 ELSE LET ts == struct_unpack_Q(r[2])
                      IN IF ~ts.ok THEN Raise("struct.error", "", <<>>, <<>>)
                         ELSE ReturnTuple(ts.val, r[3])
            ELSE IF code = S_ERR
            THEN LET msg == IF Len(r) > 1 THEN utf8_decode_ignore(r[2]) ELSE <<>>
                 IN Raise("RuntimeError", "GET ERR: ", msg, <<>>)
            ELSE Raise("RuntimeError", "Unexpected reply: ", <<>>, r)

\* the bug of rejecting only replies that are too short
get_decode_short_only(r) ==
    IF r = <<>> THEN Raise("RuntimeError", "empty reply", <<>>, <<>>)
    ELSE LET code == utf8_decode_ignore(r[1])
         IN IF code = S_MISS THEN ReturnNone
            ELSE IF code = S_OK
            THEN IF Len(r) < OkFrames
                 THEN Raise("RuntimeError", "malformed OK reply", <<>>, <<>>)
                 ELSE LET ts == struct_unpack_Q(r[2])
                      IN IF ~ts.ok THEN Raise("struct.error", "", <<>>, <<>>)
                         ELSE ReturnTuple(ts.val, r[3])
            ELSE IF code = S_ERR
            THEN LET msg == IF Len(r) > 1 THEN utf8_decode_ignore(r[2]) ELSE <<>>
                 IN Raise("RuntimeError", "GET ERR: ", msg, <<>>)
            ELSE Raise("RuntimeError", "Unexpected reply: ", <<>>, r)

\* the bug of leaving out the test of line 40: no frames is an unknown tag
get_decode_empty_unexpected(r) ==
    IF r = <<>> THEN Raise("RuntimeError", "Unexpected reply: ", <<>>, r)
    ELSE LET code == utf8_decode_ignore(r[1])
         IN IF code = S_MISS THEN ReturnNone
            ELSE IF code = S_OK
            THEN IF Len(r) # OkFrames
                 THEN Raise("RuntimeError", "malformed OK reply", <<>>, <<>>)
                 ELSE LET ts == struct_unpack_Q(r[2])
                      IN IF ~ts.ok THEN Raise("struct.error", "", <<>>, <<>>)
                         ELSE ReturnTuple(ts.val, r[3])
            ELSE IF code = S_ERR
            THEN LET msg == IF Len(r) > 1 THEN utf8_decode_ignore(r[2]) ELSE <<>>
                 IN Raise("RuntimeError", "GET ERR: ", msg, <<>>)
            ELSE Raise("RuntimeError", "Unexpected reply: ", <<>>, r)

\* lines 40-54: what get does with the reply it received
get_decode(r) ==
    IF r = <<>> THEN Raise("RuntimeError", "empty reply", <<>>, <<>>)
    ELSE LET code == utf8_decode_ignore(r[1])
         IN IF code = S_MISS THEN ReturnNone
            ELSE IF code = S_OK
            THEN IF Len(r) # OkFrames
                 THEN Raise("RuntimeError", "malformed OK reply", <<>>, <<>>)
                 ELSE LET ts == struct_unpack_Q(r[2])
                      IN IF ~ts.ok THEN Raise("struct.error", "", <<>>, <<>>)
                         ELSE ReturnTuple(ts.val, r[3])
            ELSE IF code = S_ERR
            THEN LET msg == IF Len(r) > 1 THEN utf8_decode_ignore(r[2]) ELSE <<>>
                 IN Raise("RuntimeError", "GET ERR: ", msg, <<>>)
            ELSE Raise("RuntimeError", "Unexpected reply: ", <<>>, r)

\* the bug of a socket that lets a request out while a reply is awaited
get_call_unchecked(key) ==
    /\ pc = "idle"
    /\ cur' = [op |-> "get", key |-> key, ts |-> PyInt(0), data |-> <<>>]
    /\ toServer' = Append(toServer, <<B_GET, utf8_encode(key)>>)
    /\ sock' = "RequestSent"
    /\ pc' = "get_recv"
    /\ ret' = Blank
    /\ rep' = <<>>
    /\ UNCHANGED <<toClient, store>>

\* line 38: send the two frames
get_call(key) ==
    /\ pc = "idle"
    /\ cur' = [op |-> "get", key |-> key, ts |-> PyInt(0), data |-> <<>>]
    /\ IF sock # "Idle"
       THEN /\ ret' = Raise("zmq.ZMQError", "", <<>>, <<>>)
            /\ UNCHANGED <<pc, sock, toServer>>
       ELSE /\ toServer' = Append(toServer, <<B_GET, utf8_encode(key)>>)
            /\ sock' = "RequestSent"
            /\ pc' = "get_recv"
            /\ ret' = Blank
    /\ rep' = <<>>
    /\ UNCHANGED <<toClient, store>>

\* the bug of polling: a MISS reply is dropped and get waits for another
get_return_waits_on_miss ==
    /\ pc = "get_recv"
    /\ toClient # <<>>
    /\ rep' = Head(toClient)
    /\ toClient' = Tail(toClient)
    /\ IF get_decode(rep').kind = "none"
       THEN /\ sock' = "RequestSent"
            /\ ret' = Blank
            /\ pc' = "get_recv"
       ELSE /\ sock' = "Idle"
            /\ ret' = get_decode(rep')
            /\ pc' = "idle"
    /\ UNCHANGED <<cur, toServer, store>>

\* lines 39-54: recv_multipart returns the reply; decode it
get_return ==
    /\ pc = "get_recv"
    /\ toClient # <<>>
    /\ rep' = Head(toClient)
    /\ toClient' = Tail(toClient)
    /\ sock' = "Idle"
    /\ ret' = get_decode(rep')
    /\ pc' = "idle"
    /\ UNCHANGED <<cur, toServer, store>>

\* lines 22 and 39: recv_multipart raises instead of returning a reply; the
\* exception leaves put or get, and the socket still awaits the reply
recv_raises ==
    /\ pc \in {"put_recv", "get_recv"}
    /\ ret' = Raise("zmq.ZMQError", "recv failed", <<>>, <<>>)
    /\ pc' = "idle"
    /\ UNCHANGED <<cur, sock, toServer, toClient, rep, store>>

(***************************************************************************)
(* The store, from its contract: a PUT is applied when the key has no      *)
(* record or a record with a strictly smaller timestamp, and answered      *)
(* STALE otherwise; a GET answers the record or MISS; anything else ERR.   *)
(***************************************************************************)
HasRecord(k) == k \in DOMAIN store

store_reply(m) ==
    IF Len(m) = 4 /\ m[1] = B_PUT /\ Len(m[3]) = QSize
    THEN IF ~HasRecord(m[2]) \/ LexLess(store[m[2]].ts, m[3])
         THEN <<utf8_encode(S_OK)>>
         ELSE <<utf8_encode(S_STALE)>>
    ELSE IF Len(m) = 2 /\ m[1] = B_GET
    THEN IF HasRecord(m[2])
         THEN <<utf8_encode(S_OK), store[m[2]].ts, store[m[2]].data>>
         ELSE <<utf8_encode(S_MISS)>>
    ELSE <<utf8_encode(S_ERR)>>

store_after(m) ==
    IF /\ Len(m) = 4 /\ m[1] = B_PUT /\ Len(m[3]) = QSize
       /\ (~HasRecord(m[2]) \/ LexLess(store[m[2]].ts, m[3]))
    THEN [k \in DOMAIN store \cup {m[2]} |->
            IF k = m[2] THEN [ts |-> m[3], data |-> m[4]] ELSE store[k]]
    ELSE store

store_handle ==
    /\ toServer # <<>>
    /\ toServer' = Tail(toServer)
    /\ toClient' = Append(toClient, store_reply(Head(toServer)))
    /\ store' = store_after(Head(toServer))
    /\ UNCHANGED <<pc, cur, sock, rep, ret>>

\* a peer that answers a request with any frames at all
peer_reply(r) ==
    /\ toServer # <<>>
    /\ toServer' = Tail(toServer)
    /\ toClient' = Append(toClient, r)
    /\ UNCHANGED <<pc, cur, sock, rep, ret, store>>

(***************************************************************************)
(* Specifications.  The code's actions leave log alone; each specification *)
(* says what it records.                                                   *)
(***************************************************************************)
Entry == [op |-> cur.op, key |-> cur.key, ts |-> cur.ts, data |-> cur.data,
          out |-> ret',
          held |-> IF HasRecord(utf8_encode(cur.key))
                   THEN <<store[utf8_encode(cur.key)]>> ELSE <<>>]

Call ==
    /\ Len(log) < MaxCalls
    /\ \/ \E k \in Keys, t \in Timestamps, d \in Payloads : put_call(k, t, d)
       \/ \E k \in Keys : get_call(k)
    /\ UNCHANGED <<log, others>>

Handle == store_handle /\ UNCHANGED <<log, others>>

Return ==
    /\ put_return \/ get_return
    /\ log' = Append(log, Entry)
    /\ UNCHANGED others

Next == Call \/ Handle \/ Return

\* one caller, one session, a store that follows its contract
Spec == Init /\ [][Next]_vars

WireCall ==
    /\ \/ \E k \in Keys, t \in Timestamps, d \in Payloads : put_call(k, t, d)
       \/ \E k \in Keys : get_call(k)
    /\ UNCHANGED <<log, others>>

WireReply == (\E r \in Replies : peer_reply(r)) /\ UNCHANGED <<log, others>>

WireReturn == (put_return \/ get_return) /\ UNCHANGED <<log, others>>

NextWire == WireCall \/ WireReply \/ WireReturn

\* one caller, one session, a peer that may answer anything
SpecWire == Init /\ [][NextWire]_vars

SessCall ==
    /\ \/ \E k \in Keys, t \in Timestamps \cup BadTimestamps, d \in Payloads :
            put_call(k, t, d)
       \/ \E k \in Keys : get_call(k)
    /\ UNCHANGED <<log, others>>

SessHandle == store_handle /\ UNCHANGED <<log, others>>

SessReturn == (put_return \/ get_return) /\ UNCHANGED <<log, others>>

SessRecvFails == recv_raises /\ UNCHANGED <<log, others>>

NextSession == SessCall \/ SessHandle \/ SessReturn \/ SessRecvFails

\* one caller, one session, any int as timestamp, a store that follows its
\* contract, and a receive that may fail
SpecSession == Init /\ [][NextSession]_vars

NextLive == WireCall \/ SessHandle \/ SessReturn

\* one caller, one session, a store that answers every request it receives,
\* and a blocking receive that returns once the reply is there
SpecLive ==
    /\ Init /\ [][NextLive]_vars
    /\ WF_vars(SessHandle)
    /\ WF_vars(SessReturn)

(***************************************************************************)
(* Two callers.  pc, cur, rep and ret are the locals of the caller that    *)
(* runs, and parked holds those of the other; with a session for each      *)
(* caller, sock, toServer and toClient are the session of the caller that  *)
(* runs and parked holds the other session as well.                        *)
(***************************************************************************)
\* the key, timestamps and payloads of the concurrent calls: each timestamp
\* goes with a payload of its own
ConcKey == <<107>>

ConcTimestamps == {PyInt(0), PyInt(500), PyInt(1000)}

ConcPayload(t) == IF t = PyInt(1000) THEN <<0, 255>> ELSE t.mag

\* the caller that runs, and the session it uses
Active == IF parked.id = 1 THEN 2 ELSE 1

Session == IF mode = "own" THEN Active ELSE 1

InCall(p) == IF p = "idle" THEN 0 ELSE 1

\* what the history keeps of a call: who made it, on which session, the
\* reply it received, its outcome, and how many requests the store had
\* handled as it ended
EntryOf(c, r, o) ==
    [id |-> Active, sess |-> Session, op |-> c.op, key |-> c.key,
     ts |-> c.ts, data |-> c.data, rep |-> r, out |-> o, seen |-> Len(served)]

InitConc ==
    /\ pc = "idle" /\ cur = NoCall /\ rep = <<>> /\ ret = Blank
    /\ sock = "Idle" /\ toServer = <<>> /\ toClient = <<>>
    /\ store = <<>> /\ log = <<>> /\ served = <<>>
    /\ parked = [id |-> 2, pc |-> "idle", cur |-> NoCall, rep |-> <<>>,
                 ret |-> Blank, sock |-> "Idle", toServer |-> <<>>,
                 toClient |-> <<>>]
    /\ mode \in {"own", "shared", "locked"}

\* lines 21 and 38 run by a thread while another thread's call has the
\* socket awaiting its reply: a data race on the socket, and one of its
\* outcomes is that the request goes out
racing_send(c, m) ==
    /\ pc = "idle"
    /\ sock = "RequestSent"
    /\ cur' = c
    /\ toServer' = Append(toServer, m)
    /\ pc' = IF c.op = "put" THEN "put_recv" ELSE "get_recv"
    /\ ret' = Blank
    /\ rep' = <<>>
    /\ UNCHANGED <<sock, toClient, store>>

ConcCall ==
    /\ Len(log) + InCall(pc) + InCall(parked.pc) < ConcCalls
    /\ \/ \E t \in ConcTimestamps : put_call(ConcKey, t, ConcPayload(t))
       \/ get_call(ConcKey)
    /\ log' = IF pc' = "idle" THEN Append(log, EntryOf(cur', rep', ret')) ELSE log
    /\ UNCHANGED <<served, parked, mode>>

ConcRace ==
    /\ mode = "shared"
    /\ Len(log) + InCall(pc) + InCall(parked.pc) < ConcCalls
    /\ \/ \E t \in ConcTimestamps :
            racing_send([op |-> "put", key |-> ConcKey, ts |-> t, data |-> ConcPayload(t)],
                        <<B_PUT, utf8_encode(ConcKey), struct_pack_Q(t).bytes, ConcPayload(t)>>)
       \/ racing_send([op |-> "get", key |-> ConcKey, ts |-> PyInt(0), data |-> <<>>],
                      <<B_GET, utf8_encode(ConcKey)>>)
    /\ UNCHANGED <<log, served, parked, mode>>

ConcHandle ==
    /\ store_handle
    /\ served' = Append(served, [sess |-> Session, req |-> Head(toServer),
                                 rep |-> store_reply(Head(toServer))])
    /\ UNCHANGED <<log, parked, mode>>

ConcReturn ==
    /\ put_return \/ get_return
    /\ log' = Append(log, EntryOf(cur, rep', ret'))
    /\ UNCHANGED <<served, parked, mode>>

\* the other caller runs; under mutual exclusion only between calls
ConcSwitch ==
    /\ mode = "locked" => pc = "idle"
    /\ pc' = parked.pc /\ cur' = parked.cur /\ rep' = parked.rep /\ ret' = parked.ret
    /\ IF mode = "own"
       THEN /\ sock' = parked.sock
            /\ toServer' = parked.toServer
            /\ toClient' = parked.toClient
            /\ parked' = [id |-> Active, pc |-> pc, cur |-> cur, rep |-> rep,
                          ret |-> ret, sock |-> sock, toServer |-> toServer,
                          toClient |-> toClient]
       ELSE /\ UNCHANGED <<sock, toServer, toClient>>
            /\ parked' = [parked EXCEPT !.id = Active, !.pc = pc, !.cur = cur,
                                        !.rep = rep, !.ret = ret]
    /\ UNCHANGED <<store, log, served, mode>>

NextConc == ConcCall \/ ConcRace \/ ConcHandle \/ ConcReturn \/ ConcSwitch

\* two callers with a session each, or sharing one with or without mutual
\* exclusion, and a store that follows its contract
SpecConc == InitConc /\ [][NextConc]_vars

(***************************************************************************)
(* Vocabulary of the claims                                                *)
(***************************************************************************)
Accepted(o) == o.kind = "str" /\ o.s = S_OK

Stale(o) == o.kind = "str" /\ o.s = S_STALE

Miss(o) == o.kind = "none"

Found(o, t, d) == o.kind = "tuple" /\ o.ts = t /\ o.data = d

Raised(o) == o.kind = "raise"

RemoteError(o) ==
    Raised(o) /\ o.exc = "RuntimeError" /\ o.fmt \in {"PUT ERR: ", "GET ERR: "}

MalformedReply(o) ==
    Raised(o) /\ o.exc = "RuntimeError" /\ o.fmt = "malformed OK reply"

UnexpectedReply(o) ==
    Raised(o) /\ o.exc = "RuntimeError" /\ o.fmt = "Unexpected reply: "

ProtocolError(o) == MalformedReply(o) \/ UnexpectedReply(o)

\* the calls of the history that name key k, in order
LogOf(k) == LET Names(e) == e.key = k IN SelectSeq(log, Names)

\* the record the store held for the key before the i-th call of history L
\* on that key: none, or the one left by the call before
Before(L, i) == IF i = 1 THEN <<>> ELSE L[i - 1].held

\* the call has ended and its outcome is in ret
Ended(op) == pc = "idle" /\ cur.op = op /\ ret.kind # ""

\* the status tag of the reply received, as the client reads it
Tag == utf8_decode_ignore(rep[1])

\* v is the unsigned big-endian value of the bytes b
BigEndianValue(v, b) ==
    /\ ~v.neg
    /\ \E n \in 0..Len(b) :
         /\ \A i \in 1..n : b[i] = 0
         /\ v.mag = SubSeq(b, n + 1, Len(b))
         /\ v.mag = <<>> \/ v.mag[1] # 0

(***************************************************************************)
(* C1: with no record for K, put(K, T1, P1) is Accepted, the following     *)
(* put(K, T2, P2) with T2 < T1 is Stale and leaves the record as it was,   *)
(* and a get(K) after them returns (T1, P1).                               *)
(***************************************************************************)
C1_StaleWriteKeepsRecord ==
    \A k \in Keys :
      LET L == LogOf(k)
      IN \A i \in 1..Len(L) :
           ( /\ Before(L, i) = <<>>
             /\ L[i].op = "put"
             /\ i + 1 <= Len(L)
             /\ L[i + 1].op = "put"
             /\ IntLess(L[i + 1].ts, L[i].ts) )
           => /\ Accepted(L[i].out)
              /\ Stale(L[i + 1].out)
              /\ L[i].held # <<>>
              /\ L[i + 1].held = L[i].held
              /\ (i + 2 <= Len(L) /\ L[i + 2].op = "get")
                     => Found(L[i + 2].out, L[i].ts, L[i].data)

C1_Witness ==
    \E k \in Keys :
      LET L == LogOf(k)
      IN /\ Len(L) = 3
         /\ L[1].op = "put" /\ L[2].op = "put" /\ L[3].op = "get"
         /\ IntLess(L[2].ts, L[1].ts)
         /\ L[2].data # L[1].data
         /\ Stale(L[2].out)
         /\ Found(L[3].out, L[1].ts, L[1].data)

(***************************************************************************)
(* C2: put(K, T1, P1) followed by put(K, T2, P2) with T1 < T2 is Accepted  *)
(* both times, and a get(K) after them returns (T2, P2).                   *)
(***************************************************************************)
\* as stated: whatever the store holds for K
C2_AsStated ==
    \A k \in Keys :
      LET L == LogOf(k)
      IN \A i \in 1..Len(L) :
           ( /\ L[i].op = "put"
             /\ i + 1 <= Len(L)
             /\ L[i + 1].op = "put"
             /\ IntLess(L[i].ts, L[i + 1].ts) )
           => /\ Accepted(L[i].out)
              /\ Accepted(L[i + 1].out)
              /\ (i + 2 <= Len(L) /\ L[i + 2].op = "get")
                     => Found(L[i + 2].out, L[i + 1].ts, L[i + 1].data)

\* C2, amended: the same, when the store holds no record for K, or one with
\* a timestamp below T1, as the first put is made
C2_NewerWriteWins ==
    \A k \in Keys :
      LET L == LogOf(k)
      IN \A i \in 1..Len(L) :
           ( /\ L[i].op = "put"
             /\ \/ Before(L, i) = <<>>
                \/ \E t \in Timestamps :
                     /\ BigEndianValue(t, Before(L, i)[1].ts)
                     /\ IntLess(t, L[i].ts)
             /\ i + 1 <= Len(L)
             /\ L[i + 1].op = "put"
             /\ IntLess(L[i].ts, L[i + 1].ts) )
           => /\ Accepted(L[i].out)
              /\ Accepted(L[i + 1].out)
              /\ (i + 2 <= Len(L) /\ L[i + 2].op = "get")
                     => Found(L[i + 2].out, L[i + 1].ts, L[i + 1].data)

C2_Witness ==
    \E k \in Keys :
      LET L == LogOf(k)
      IN /\ Len(L) = 3
         /\ L[1].op = "put" /\ L[2].op = "put" /\ L[3].op = "get"
         /\ IntLess(L[1].ts, L[2].ts)
         /\ L[2].data # L[1].data
         /\ Accepted(L[1].out) /\ Accepted(L[2].out)
         /\ Found(L[3].out, L[2].ts, L[2].data)

(***************************************************************************)
(* C3: put(K, T, P) followed by get(K) returns payload bytes identical to  *)
(* P, the empty payload included.                                          *)
(***************************************************************************)
\* as stated: whatever the put returned
C3_AsStated ==
    \A k \in Keys :
      LET L == LogOf(k)
      IN \A i \in 1..Len(L) :
           (L[i].op = "put" /\ i + 1 <= Len(L) /\ L[i + 1].op = "get")
           => L[i + 1].out.kind = "tuple" /\ L[i + 1].out.data = L[i].data

\* C3, amended: a put(K, T, P) that returns Accepted, followed by get(K),
\* returns payload bytes identical to P
C3_RoundTrip ==
    \A k \in Keys :
      LET L == LogOf(k)
      IN \A i \in 1..Len(L) :
           ( /\ L[i].op = "put" /\ Accepted(L[i].out)
             /\ i + 1 <= Len(L) /\ L[i + 1].op = "get" )
           => L[i + 1].out.kind = "tuple" /\ L[i + 1].out.data = L[i].data

C3_Witness ==
    \E k \in Keys :
      LET L == LogOf(k)
      IN /\ Len(L) = 3
         /\ L[1].op = "put" /\ L[1].data # <<>> /\ Accepted(L[1].out)
         /\ L[2].op = "put" /\ L[2].data = <<>> /\ Accepted(L[2].out)
         /\ L[3].op = "get" /\ L[3].out.kind = "tuple" /\ L[3].out.data = <<>>

RECURSIVE ValidUtf8(_)
\* the bytes are well-formed UTF-8 (one- and two-byte forms)
ValidUtf8(b) ==
    IF b = <<>> THEN TRUE
    ELSE IF Head(b) < 128 THEN ValidUtf8(Tail(b))
    ELSE /\ IsLead2(Head(b))
         /\ Len(b) >= 2
         /\ IsCont(b[2])
         /\ ValidUtf8(Tail(Tail(b)))

(***************************************************************************)
(* C4: put returns Accepted exactly when the reply tag is OK and Stale     *)
(* exactly when it is STALE; a STALE reply never raises, and no other      *)
(* reply makes put return a value.                                         *)
(***************************************************************************)
C4_PutMapsTag ==
    Ended("put") =>
      IF rep = <<>> THEN Raised(ret)
      ELSE /\ Accepted(ret) <=> Tag = S_OK
           /\ Stale(ret) <=> Tag = S_STALE
           /\ Raised(ret) <=> Tag \notin {S_OK, S_STALE}
           /\ Raised(ret) \/ Accepted(ret) \/ Stale(ret)

C4_Witness == Ended("put") /\ rep = <<S_STALE>> /\ Stale(ret)

(***************************************************************************)
(* C5: get returns None exactly when the reply tag is MISS, never raising  *)
(* on MISS, and returns (timestamp, payload) on an OK reply of 3 frames    *)
(* with an 8-byte second frame: the timestamp is that frame's unsigned     *)
(* big-endian value, the payload the third frame unchanged.                *)
(***************************************************************************)
C5_GetMapsReply ==
    Ended("get") =>
      IF rep = <<>> THEN Raised(ret)
      ELSE /\ Miss(ret) <=> Tag = S_MISS
           /\ (Tag = S_OK /\ Len(rep) = 3 /\ Len(rep[2]) = 8)
                 => /\ ret.kind = "tuple"
                    /\ BigEndianValue(ret.ts, rep[2])
                    /\ ret.data = rep[3]

C5_Witness ==
    /\ Ended("get")
    /\ Len(rep) = 3 /\ rep[1] = S_OK /\ rep[3] = <<255>>
    /\ Found(ret, PyInt(1000), <<255>>)

(***************************************************************************)
(* C6: a GET reply tagged OK with a frame count other than 3 fails with    *)
(* the malformed-reply error: it is not None, not a record and not the     *)
(* error of a server ERR.                                                  *)
(***************************************************************************)
C6_MalformedOk ==
    (Ended("get") /\ rep # <<>> /\ Tag = S_OK /\ Len(rep) # 3)
      => /\ MalformedReply(ret)
         /\ ~Miss(ret)
         /\ ret.kind # "tuple"
         /\ ~RemoteError(ret)

C6_Witness ==
    /\ Ended("get") /\ rep # <<>> /\ Tag = S_OK
    /\ Len(rep) = 4 /\ Len(rep[2]) = 8
    /\ MalformedReply(ret)

(***************************************************************************)
(* C7: for put and get, a reply tagged ERR fails with RemoteError; with a  *)
(* second frame the error carries that frame verbatim, with none it        *)
(* carries the empty message and decoding does not fail.                   *)
(***************************************************************************)
\* as stated: the message is the frame, byte for byte
C7_AsStated ==
    ((Ended("put") \/ Ended("get")) /\ rep # <<>> /\ Tag = S_ERR)
      => /\ RemoteError(ret)
         /\ Len(rep) > 1 => utf8_encode(ret.s) = rep[2]
         /\ Len(rep) = 1 => ret.s = <<>>

\* C7, amended: with a second frame the error carries that frame's text
\* with the bytes that are not valid UTF-8 dropped, so verbatim when the
\* frame is valid UTF-8
C7_ErrIsRemoteError ==
    ((Ended("put") \/ Ended("get")) /\ rep # <<>> /\ Tag = S_ERR)
      => /\ RemoteError(ret)
         /\ ret.fmt = (IF cur.op = "put" THEN "PUT ERR: " ELSE "GET ERR: ")
         /\ Len(rep) > 1 =>
              /\ ret.s = utf8_decode_ignore(rep[2])
              /\ ValidUtf8(rep[2]) => utf8_encode(ret.s) = rep[2]
         /\ Len(rep) = 1 => ret.s = <<>>

C7_Witness ==
    /\ Ended("put") /\ rep = <<S_ERR>>
    /\ RemoteError(ret) /\ ret.s = <<>>

(***************************************************************************)
(* C8: a reply whose tag the operation does not recognise fails with       *)
(* ProtocolError and yields no value: for put any tag but OK, STALE, ERR   *)
(* (MISS included), for get any tag but OK, MISS, ERR (STALE included).    *)
(***************************************************************************)
C8_UnknownTag ==
    /\ (Ended("put") /\ rep # <<>> /\ Tag \notin {S_OK, S_STALE, S_ERR})
         => UnexpectedReply(ret) /\ ret.arg = rep
    /\ (Ended("get") /\ rep # <<>> /\ Tag \notin {S_OK, S_MISS, S_ERR})
         => UnexpectedReply(ret) /\ ret.arg = rep

C8_Witness ==
    /\ Ended("put") /\ rep = <<S_MISS>> /\ ProtocolError(ret)

(***************************************************************************)
(* C9: a PUT reply tagged OK or STALE, or a GET reply tagged MISS, with    *)
(* more than one frame fails with ProtocolError instead of returning       *)
(* Accepted, Stale or None.                                                *)
(***************************************************************************)
C9_SingleFrameChecked ==
    /\ (Ended("put") /\ Len(rep) > 1 /\ Tag \in {S_OK, S_STALE})
         => ProtocolError(ret)
    /\ (Ended("get") /\ Len(rep) > 1 /\ Tag = S_MISS)
         => ProtocolError(ret)

(***************************************************************************)
(* C10: a GET reply tagged OK with 3 frames whose timestamp frame is not   *)
(* 8 bytes long fails with ProtocolError, the error kind of a wrong frame  *)
(* count; it is not a record and not another kind of failure.              *)
(***************************************************************************)
C10_TimestampShape ==
    (Ended("get") /\ Len(rep) = 3 /\ Tag = S_OK /\ Len(rep[2]) # 8)
      => ProtocolError(ret)

\* the bytes of f below 128, in order
KeepAscii(f) == LET IsAscii(x) == x < 128 IN SelectSeq(f, IsAscii)

\* f is one of the four tags with one or more bytes that are not valid
\* UTF-8 before, inside or after it
TagPlusInvalid(f) ==
    /\ ~ValidUtf8(f)
    /\ KeepAscii(f) \in {S_OK, S_STALE, S_MISS, S_ERR}
    /\ \A i \in 1..Len(f) :
         f[i] >= 128 =>
           /\ ~(IsLead2(f[i]) /\ i < Len(f) /\ IsCont(f[i + 1]))
           /\ ~(IsCont(f[i]) /\ i > 1 /\ IsLead2(f[i - 1]))

(***************************************************************************)
(* C11: the status tag is decoded with invalid bytes replaced by a         *)
(* replacement marker: a first frame that is a tag plus invalid bytes      *)
(* decodes to a string other than the tag and is an unrecognised tag.      *)
(***************************************************************************)
\* as stated: such a frame is an unrecognised tag
C11_AsStated ==
    ((Ended("put") \/ Ended("get")) /\ rep # <<>> /\ TagPlusInvalid(rep[1]))
      => UnexpectedReply(ret)

\* C11, amended: the status tag is decoded with invalid bytes dropped: a
\* first frame that is a tag plus invalid bytes decodes to the tag and is
\* treated as that tag
C11_InvalidBytesDropped ==
    ((Ended("put") \/ Ended("get")) /\ rep # <<>> /\ TagPlusInvalid(rep[1]))
      => LET t == KeepAscii(rep[1])
         IN /\ t = S_ERR => RemoteError(ret)
            /\ (cur.op = "put" /\ t = S_OK) => Accepted(ret)
            /\ (cur.op = "put" /\ t = S_STALE) => Stale(ret)
            /\ (cur.op = "put" /\ t = S_MISS) => UnexpectedReply(ret)
            /\ (cur.op = "get" /\ t = S_MISS) => Miss(ret)
            /\ (cur.op = "get" /\ t = S_STALE) => UnexpectedReply(ret)
            /\ (cur.op = "get" /\ t = S_OK) =>
                 /\ ~UnexpectedReply(ret)
                 /\ (Len(rep) = 3 /\ Len(rep[2]) = 8) => ret.kind = "tuple"

C11_Witness ==
    /\ Ended("put") /\ rep = <<(<<79, 75, 255>>)>> /\ Accepted(ret)

(***************************************************************************)
(* C12: for put and get, a reply of zero frames fails the call with the    *)
(* empty-reply error, raised before any tag is decoded; it is neither a    *)
(* ProtocolError nor a RemoteError and yields no value.                    *)
(***************************************************************************)
\* the step in which a call receives its reply
Receives == pc # "idle" /\ pc' = "idle" /\ toClient' = Tail(toClient)

EmptyReplyError(o) ==
    Raised(o) /\ o.exc = "RuntimeError" /\ o.fmt = "empty reply"

C12_EmptyReply ==
    [][ (Receives /\ Head(toClient) = <<>>)
          => /\ rep' = <<>>
             /\ EmptyReplyError(ret')
             /\ ~ProtocolError(ret') /\ ~RemoteError(ret')
             /\ ret'.kind \notin {"str", "none", "tuple"} ]_vars

C12_Witness ==
    /\ Ended("get") /\ rep = <<>> /\ EmptyReplyError(ret)

(***************************************************************************)
(* C13: put sends exactly the four frames PUT, key, timestamp, payload:    *)
(* the key in UTF-8, the timestamp as 8 bytes big-endian unsigned, the     *)
(* payload verbatim; get sends exactly the two frames GET, key; for every  *)
(* timestamp of 0 .. 2^64 - 1 the timestamp frame decodes, the way get     *)
(* decodes it, to the same integer.                                        *)
(***************************************************************************)
\* the step in which a call sends its request
Sends(op) == pc = "idle" /\ pc' # "idle" /\ cur'.op = op

\* "é" is the two bytes C3 A9, "k" the one byte 6B
Utf8Of(key) == IF key = <<233>> THEN <<195, 169>> ELSE key

C13_RequestEncoding ==
    [][ LET m == IF toServer' = <<>> THEN <<>> ELSE toServer'[Len(toServer')]
        IN /\ Sends("put") =>
                /\ toServer' = Append(toServer, m)
                /\ Len(m) = 4
                /\ m[1] = <<80, 85, 84>>
                /\ m[2] = Utf8Of(cur'.key)
                /\ Len(m[3]) = 8 /\ BigEndianValue(cur'.ts, m[3])
                /\ struct_unpack_Q(m[3]) = [ok |-> TRUE, val |-> cur'.ts]
                /\ m[4] = cur'.data
           /\ Sends("get") =>
                /\ toServer' = Append(toServer, m)
                /\ Len(m) = 2
                /\ m[1] = <<71, 69, 84>>
                /\ m[2] = Utf8Of(cur'.key) ]_vars

C13_Witness ==
    /\ pc = "put_recv" /\ cur.key = <<233>> /\ cur.ts = PyInt(0)
    /\ cur.data = <<0, 255>>
    /\ toServer = << <<(<<80, 85, 84>>), <<195, 169>>,
                       <<0, 0, 0, 0, 0, 0, 0, 0>>, <<0, 255>> >> >>

(***************************************************************************)
(* C14: with a single caller every put/get call performs exactly one send  *)
(* followed by exactly one receive, Idle -> RequestSent -> Idle, with no   *)
(* retry; when a reply is received the session is Idle as the call ends,   *)
(* whatever the outcome, so the next call starts with a send.              *)
(***************************************************************************)
C14_OneRoundTrip ==
    [][ /\ pc = "idle" =>
             \* a call begins with its one send
             /\ pc' # "idle"
             /\ sock = "Idle" /\ sock' = "RequestSent"
             /\ Len(toServer') = Len(toServer) + 1
             /\ toClient' = toClient
        /\ pc # "idle" =>
             \* nothing more is sent while the call waits and when it ends
             /\ Len(toServer') <= Len(toServer)
             /\ pc' # "idle" => (pc' = pc /\ sock' = "RequestSent")
             /\ pc' = "idle" =>
                  /\ toClient' = Tail(toClient)
                  /\ rep' = Head(toClient)
                  /\ toServer' = <<>> /\ toServer = <<>>
                  /\ sock' = "Idle"
                  /\ \/ ret'.kind \in {"str", "none", "tuple"}
                     \/ Raised(ret') ]_vars

\* a call that failed with RemoteError has left the session Idle
C14_Witness ==
    /\ Ended("get") /\ RemoteError(ret)
    /\ sock = "Idle" /\ toServer = <<>> /\ toClient = <<>>

(***************************************************************************)
(* C15: against a store that follows its contract, for every key: the      *)
(* stored timestamp strictly increases on each accepted put and is left    *)
(* as it was by every other operation (a get, a put to another key, a put  *)
(* with a timestamp less than or equal to the stored one, which is Stale); *)
(* a record once accepted is never deleted, so get never returns Miss      *)
(* again; get for a key never written returns Miss.                        *)
(***************************************************************************)
\* the timestamp of a stored record, as get would read it
StoredTs(h) == struct_unpack_Q(h[1].ts).val

C15_StoredTimestampMonotone ==
    \A k \in Keys :
      LET L == LogOf(k)
      IN \A i \in 1..Len(L) :
           LET b == Before(L, i)
               h == L[i].held
           IN /\ b # <<>> => h # <<>>
              /\ (L[i].op = "put" /\ Accepted(L[i].out)) =>
                   /\ h # <<>>
                   /\ StoredTs(h) = L[i].ts /\ h[1].data = L[i].data
                   /\ b # <<>> => IntLess(StoredTs(b), StoredTs(h))
              /\ (L[i].op = "put" /\ ~Accepted(L[i].out)) => h = b
              /\ (L[i].op = "put" /\ b # <<>> /\ ~IntLess(StoredTs(b), L[i].ts)) =>
                   Stale(L[i].out)
              /\ L[i].op = "get" =>
                   /\ h = b
                   /\ Miss(L[i].out) <=> b = <<>>
                   /\ b # <<>> => Found(L[i].out, StoredTs(b), b[1].data)

\* Miss before the first write, then an accepted put, then a put with the
\* same timestamp, which is Stale and leaves the record
C15_Witness ==
    \E k \in Keys :
      LET L == LogOf(k)
      IN /\ Len(L) = 3
         /\ L[1].op = "get" /\ Miss(L[1].out)
         /\ L[2].op = "put" /\ Accepted(L[2].out)
         /\ L[3].op = "put" /\ L[3].ts = L[2].ts /\ L[3].data # L[2].data
         /\ Stale(L[3].out) /\ L[3].held = L[2].held

\* the step in which a caller that is not inside a call makes one
CallStep == pc = "idle" /\ <<pc, cur, rep, ret>>' # <<pc, cur, rep, ret>>

\* the caller is outside a call and the session awaits a reply
Desynchronized == pc = "idle" /\ sock = "RequestSent"

(***************************************************************************)
(* C18: a call whose receive fails leaves the session in RequestSent; from *)
(* then on no put or get on the session performs its send, and the session *)
(* never returns to Idle.                                                  *)
(***************************************************************************)
C18_FailedReceiveIsFatal ==
    [][ /\ (pc # "idle" /\ pc' = "idle" /\ toClient' = toClient) =>
             /\ Raised(ret')
             /\ sock' = "RequestSent"
        /\ Desynchronized =>
             /\ Desynchronized'
             /\ Len(toServer') <= Len(toServer)
             /\ CallStep => (Raised(ret') /\ ret'.exc \in {"zmq.ZMQError", "struct.error"}) ]_vars

\* a get made after a failed receive could not send, and the reply to the
\* failed call lies unread
C18_Witness ==
    /\ Desynchronized
    /\ cur.op = "get" /\ Raised(ret) /\ ret.exc = "zmq.ZMQError" /\ ret.fmt = ""
    /\ toClient # <<>>

(***************************************************************************)
(* C20: put with a timestamp below 0 or above 2^64 - 1 fails while the     *)
(* timestamp is encoded, before any frame is sent: no request reaches the  *)
(* server, the store is unchanged, the session stays Idle, and a put or    *)
(* get that follows on the session proceeds normally.                      *)
(***************************************************************************)
OutOfRange(ts) == ts.neg \/ MagLess(MaxU64.mag, ts.mag)

EncodingFailed == pc = "idle" /\ cur.op = "put" /\ Raised(ret) /\ ret.exc = "struct.error"

C20_OutOfRangeTimestamp ==
    [][ /\ (CallStep /\ cur'.op = "put" /\ OutOfRange(cur'.ts)) =>
             /\ EncodingFailed'
             /\ toServer' = toServer /\ toClient' = toClient
             /\ store' = store
             /\ sock' = sock
        /\ (EncodingFailed /\ sock = "Idle" /\ CallStep /\ ~OutOfRange(cur'.ts)) =>
             /\ pc' # "idle"
             /\ sock' = "RequestSent"
             /\ Len(toServer') = Len(toServer) + 1 ]_vars

\* put with 2^64 has failed on an Idle session whose store holds a record
C20_Witness ==
    /\ EncodingFailed /\ cur.ts \in BadTimestamps /\ ~cur.ts.neg
    /\ sock = "Idle" /\ toServer = <<>>
    /\ store # << >>

(***************************************************************************)
(* C19: when the server answers every request it receives, every put/get   *)
(* call completes: it returns a value or raises.  No receive timeout is    *)
(* set, so a call ends in no other way than by receiving a reply: until    *)
(* one arrives it stays blocked in RequestSent.                            *)
(***************************************************************************)
C19_CallCompletes ==
    /\ (pc # "idle") ~> (pc = "idle" /\ ret.kind # "")
    /\ [][ /\ (pc # "idle" /\ pc' = "idle") =>
                (toClient # <<>> /\ toClient' = Tail(toClient))
           /\ (pc # "idle" /\ toClient = <<>>) =>
                (pc' = pc /\ sock' = "RequestSent") ]_vars

\* a get that waited for the store has completed with a record
C19_Witness ==
    /\ Ended("get") /\ ret.kind = "tuple" /\ sock = "Idle"

(***************************************************************************)
(* Vocabulary of the claims on two callers                                 *)
(***************************************************************************)
\* the frames a call of the history sent
RequestOf(e) ==
    IF e.op = "put"
    THEN <<B_PUT, utf8_encode(e.key), struct_pack_Q(e.ts).bytes, e.data>>
    ELSE <<B_GET, utf8_encode(e.key)>>

\* the calls that ended on session s, in the order they ended
LogOn(s) == LET On(e) == e.sess = s IN SelectSeq(log, On)

\* the requests the store took from session s, in the order it took them
ServedOn(s) == LET On(x) == x.sess = s IN SelectSeq(served, On)

\* the call whose request the store handled i-th, once that call has ended:
\* the k-th call on its session, when the request was the k-th from it
CallOf(i) ==
    LET s == served[i].sess
        k == Cardinality({j \in 1..i : served[j].sess = s})
    IN IF k <= Len(LogOn(s)) THEN <<LogOn(s)[k]>> ELSE <<>>

ServedPut(i) == served[i].req[1] = B_PUT

ServedGet(i) == served[i].req[1] = B_GET

ServedTs(i) == struct_unpack_Q(served[i].req[3]).val

Lower(a, b) == IF a < b THEN a ELSE b

Higher(a, b) == IF a < b THEN b ELSE a

\* the calls of the a-th and the b-th request overlapped: the store handled
\* the later of the two requests before the call of the earlier one ended
Concurrent(a, b) ==
    \/ CallOf(Lower(a, b)) = <<>>
    \/ CallOf(Lower(a, b))[1].seen >= Higher(a, b)

\* the store handled, as a-th and b-th request, a put of T1 and a put of T2
\* on the same key from two sessions whose calls overlapped, T1 < T2, and
\* no put between them
TwoPuts(a, b) ==
    /\ mode = "own"
    /\ Concurrent(a, b)
    /\ ServedPut(a) /\ ServedPut(b)
    /\ served[a].sess # served[b].sess
    /\ served[a].req[2] = served[b].req[2]
    /\ IntLess(ServedTs(a), ServedTs(b))
    /\ \A i \in (Lower(a, b) + 1)..(Higher(a, b) - 1) : ~ServedPut(i)

\* what the claim says of the two puts and of a get after them
LastWriteWins(a, b) ==
    /\ CallOf(b) # <<>> =>
         /\ RequestOf(CallOf(b)[1]) = served[b].req
         /\ Accepted(CallOf(b)[1].out)
    /\ CallOf(a) # <<>> =>
         /\ RequestOf(CallOf(a)[1]) = served[a].req
         /\ IF a < b THEN Accepted(CallOf(a)[1].out) ELSE Stale(CallOf(a)[1].out)
    /\ \A g \in (Higher(a, b) + 1)..Len(served) :
         ( /\ ServedGet(g) /\ served[g].req[2] = served[b].req[2]
           /\ \A i \in (Higher(a, b) + 1)..g : ~ServedPut(i)
           /\ CallOf(a) # <<>> /\ CallOf(b) # <<>> /\ CallOf(g) # <<>> )
         => Found(CallOf(g)[1].out, ServedTs(b), served[b].req[4])

(***************************************************************************)
(* C16: two callers, each with a session of its own, put the same key      *)
(* concurrently with timestamps T1 < T2: in whichever order the store      *)
(* takes the two requests the put of T2 is Accepted and a get after both   *)
(* returns (T2, P2); the put of T1 is Accepted if the store took it first  *)
(* and Stale otherwise.                                                    *)
(***************************************************************************)
\* as stated: whatever the store holds for K
C16_AsStated ==
    \A a, b \in 1..Len(served) : TwoPuts(a, b) => LastWriteWins(a, b)

\* C16, amended: the same, when the store holds no record for K, or one
\* with a timestamp below T1, as it takes the first of the two requests
C16_LastWriteWins ==
    \A a, b \in 1..Len(served) :
      ( /\ TwoPuts(a, b)
        /\ \A i \in 1..(Lower(a, b) - 1) :
             (ServedPut(i) /\ served[i].rep = <<utf8_encode(S_OK)>>)
               => IntLess(ServedTs(i), ServedTs(a)) )
      => LastWriteWins(a, b)

\* the put of T1 was sent first and ended first, the store took the put of
\* T2 first: T1 is Stale, T2 Accepted, and the get returns (T2, P2)
C16_Witness ==
    /\ mode = "own" /\ Len(log) = 3 /\ Len(served) = 3
    /\ TwoPuts(2, 1)
    /\ log[1].op = "put" /\ log[1].ts = ServedTs(2) /\ Stale(log[1].out)
    /\ log[2].op = "put" /\ log[2].ts = ServedTs(1) /\ Accepted(log[2].out)
    /\ log[1].id # log[2].id
    /\ log[3].op = "get" /\ Found(log[3].out, log[2].ts, log[2].data)

(***************************************************************************)
(* C17: two callers on one session without mutual exclusion can reach a    *)
(* state where a second send is issued while the session is in             *)
(* RequestSent, which corrupts the request/reply cycle; with a session per *)
(* caller, or mutual exclusion around the shared session, no such state is *)
(* reachable and every caller receives the reply to its own request, in    *)
(* the order the requests were issued.                                     *)
(***************************************************************************)
\* a send was refused because the session awaited a reply
SendRefused(o) == Raised(o) /\ o.exc = "zmq.ZMQError"

\* both callers are inside a call
BothInCall == pc # "idle" /\ parked.pc # "idle"

\* on session s the k-th call that ended received the store's reply to its
\* own request, which was the k-th request the store took from the session
OwnRepliesInOrder(s) ==
    /\ Len(LogOn(s)) <= Len(ServedOn(s))
    /\ \A k \in 1..Len(LogOn(s)) :
         /\ ServedOn(s)[k].req = RequestOf(LogOn(s)[k])
         /\ ServedOn(s)[k].rep = LogOn(s)[k].rep

C17_OneRequestInFlight ==
    mode \in {"own", "locked"} =>
      /\ \A i \in 1..Len(log) : ~SendRefused(log[i].out)
      /\ mode = "locked" => ~BothInCall
      /\ (pc = "idle") <=> (sock = "Idle")
      /\ Len(toServer) + Len(toClient) <= InCall(pc)
      /\ mode = "own" =>
           /\ (parked.pc = "idle") <=> (parked.sock = "Idle")
           /\ Len(parked.toServer) + Len(parked.toClient) <= InCall(parked.pc)
      /\ OwnRepliesInOrder(1) /\ OwnRepliesInOrder(2)

\* on a session shared without exclusion a request went out while the
\* session awaited a reply, and a put has received the reply to a get
C17_Witness ==
    /\ mode = "shared"
    /\ \E k \in 1..Len(log) :
         /\ k <= Len(served)
         /\ log[k].op = "put" /\ served[k].req[1] = B_GET
         /\ log[k].rep = served[k].rep
         /\ UnexpectedReply(log[k].out)

====
